---- MODULE Spec2Model ----
(***************************************************************************)
(* Connection & synchronization engine of the messaging client:            *)
(* WebSocketService (connection state, reconnect/backoff, auto-join,       *)
(* outbox, de-duplication), the message handlers of ChatScreen and         *)
(* ChatContext, and DatabaseService.saveMessage.                           *)
(***************************************************************************)
EXTENDS Integers, Sequences, FiniteSets, TLC

\* ---------------------------------------------------------------- bounds
MaxSockets == 2
MaxFaults == 4
MaxLive == 1
MaxDrops == 1
MaxPasses == 2
MaxWaits == 2
NumChats == 2
MaxAuth == 2
MaxQueue == 2
MaxMsgs == 2
MaxTime == 3
MaxSends == 1
MaxDeliveries == 2
MaxCapFaults == 7

\* ------------------------------------------------------ program constants
maxReconnectAttempts == 5
maxAutoJoinRetries == 3
BaseDelay == 1000
CapDelay == 15000
QueueTTL == 300000
\* granularity of the modelled clock: half the outbox TTL, in ms
TickMs == QueueTTL \div 2

Sockets == 1..MaxSockets
Chats == 1..NumChats
Msgs == 1..MaxMsgs
\* user.id of the local user, and the ids of two peers
Self == 1
Other == 2
Third == 3
\* this.socket = null
NoSocket == 0
\* route.params.chatId of the mounted ChatScreen
ScreenChat == 1

Min(a, b) == IF a < b THEN a ELSE b

VARIABLES
  svc,             \* fields of the WebSocketServiceClass instance
  net,             \* sockets created by io(): transport state and what is in flight
  connectPending,  \* a connect() call is suspended at await Storage.getSecureString
  reconnectTimers, \* setTimeout callbacks scheduled by handleReconnection
  passes,          \* invocations of autoJoinUserChatsWithRetry
  waits,           \* invocations of joinChatAndWait
  leaked,          \* one-off join listeners left on a socket after their wait ended
  now,             \* Date.now()
  out,             \* what the last step emitted or queued
  app,             \* Local Store rows, ChatScreen state, ChatContext state
  gh               \* history variables used to state the properties

vars == <<svc, net, connectPending, reconnectTimers, passes, waits, leaked, now, out, app, gh>>

IdlePass == [pc |-> "idle", attempt |-> 0, idx |-> 0, succ |-> 0, w |-> 0, chats |-> << >>]
FreeWait == [st |-> "free", chat |-> 0, sock |-> 0, timer |-> FALSE, lsn |-> FALSE, owner |-> 0]

\* message ids: a lastInsertRowId ("row"), the id ChatScreen
\* builds from timestamp, user and a random suffix ("local"), the id
\* WebSocketService.sendMessage generates ("msg"), ChatContext's temp id ("temp")
Id(kind, from, n) == [kind |-> kind, from |-> from, n |-> n]
NoId == Id("none", 0, 0)

\* the messageId ChatScreen.sendMessage puts on the wire: savedMessageId, the
\* lastInsertRowId r of the sender's own messages table
RowId(r) == Id("row", 0, r)

\* payload of a send_message / new_message event: n stands for content and timestamp
MsgData(id, c, u, n) == [messageId |-> id, chatId |-> c, senderId |-> u, n |-> n]

\* payload of a queued join_chat
JoinData(c) == MsgData(NoId, c, 0, 0)

\* useState initial values of ChatScreen
NewScreen == [messages |-> << >>, processedMessageIds |-> {}, sendingMessage |-> FALSE, draft |-> 0]

\* initial state of a useWebSocket instance: connectionStatus, joinedChatsRef,
\* and its sendMessage call in progress (pc, chat, n, and w, the join wait it awaits)
NewHook == [connectionStatus |-> "disabled", joinedChats |-> {}, pc |-> "idle", chat |-> 0, n |-> 0, w |-> 0]

\* empty messages table, fresh ChatScreen, ChatContext and hook; sends, delivered,
\* redelivered and the counters are history
NewApp == [db |-> << >>, screen |-> NewScreen, ctx |-> << >>, hook |-> NewHook, sends |-> << >>, nSends |-> 0, nDeliv |-> 0, delivered |-> {}, redelivered |-> {}]

\* constructor()
NewService == [socket |-> NoSocket, isConnected |-> FALSE, messageQueue |-> << >>, reconnectAttempts |-> 0, isEnabled |-> FALSE, authToken |-> FALSE, processedMessages |-> << >>, joinedChats |-> {}, userId |-> 0, autoJoinCompleted |-> FALSE, onMessageReceived |-> "none"]

\* no socket exists before the first io() call
NewNet == [created |-> 0, tstate |-> [s \in Sockets |-> "none"], srvJoin |-> [s \in Sockets |-> {}], authPending |-> [s \in Sockets |-> 0], sent |-> {}]

NoCall == [op |-> "none", emitted |-> 0, queued |-> 0, enabled |-> FALSE, connected |-> FALSE]
NoFlush == [at |-> 0, entries |-> << >>, emitted |-> {}, left |-> << >>, enabled |-> FALSE, joined |-> {}, wire |-> << >>]
NoRecv == [again |-> FALSE, own |-> FALSE, changed |-> FALSE, first |-> FALSE, fine |-> FALSE, stored |-> FALSE, discarded |-> FALSE, dec |-> FALSE, shown |-> FALSE, id |-> NoId]
\* no join event handled and no leaveChat called in this step
NoJoinEvent == [kind |-> "none", chat |-> 0]

NoOut == [call |-> NoCall, flush |-> NoFlush, recv |-> NoRecv, auth |-> "none", jev |-> NoJoinEvent, timer |-> "none"]

NewGhost == [faults |-> 0, delays |-> << >>, readyFlag |-> FALSE, firstDelay |-> 0, autoSent |-> [s \in Sockets |-> [c \in Chats |-> 0]], readySock |-> 0, settledBad |-> FALSE, dropped |-> {}, fresh |-> {}, scheduled |-> 0, refused |-> FALSE, stale |-> 0]

Init ==
  /\ svc = NewService
  /\ net = NewNet
  /\ connectPending = FALSE
  /\ reconnectTimers = 0
  /\ passes = [p \in 1..MaxPasses |-> IdlePass]
  /\ waits = [w \in 1..MaxWaits |-> FreeWait]
  /\ leaked = {}
  /\ now = 0
  /\ out = NoOut
  /\ app = NewApp
  /\ gh = NewGhost

\* DatabaseService.getUserChats(userId): the chats the user is a member of;
\* no row matches a null user id.
getUserChats(uid) == IF uid = 0 THEN << >> ELSE [i \in 1..NumChats |-> i]

\* ------------------------------------------------------------ reconnection
\* delay computed by handleReconnection once reconnectAttempts has the value att
Delay(att) == Min(BaseDelay * (2 ^ att), CapDelay)

\* the cap was reached: the else branch of handleReconnection
ReconnectRefused(v) == v.isEnabled /\ v.reconnectAttempts >= maxReconnectAttempts

\* a handleReconnection that ignores the cap
ReconnectUncapped(v) == v.isEnabled

\* handleReconnection schedules a timer
ReconnectScheduled(v) == v.isEnabled /\ v.reconnectAttempts < maxReconnectAttempts

handleReconnection(v) == IF ReconnectScheduled(v) THEN [v EXCEPT !.reconnectAttempts = @ + 1] ELSE v

\* history kept for a handleReconnection call made in service state v
NoteReconnect(g, v) ==
  IF ReconnectScheduled(v)
  THEN [g EXCEPT !.delays = Append(@, Delay(v.reconnectAttempts + 1)),
                 !.firstDelay = IF g.readyFlag THEN Delay(v.reconnectAttempts + 1) ELSE @,
                 !.readyFlag = FALSE,
                 !.scheduled = @ + 1]
  ELSE [g EXCEPT !.refused = @ \/ ReconnectRefused(v)]

\* the confirmed-joined set after the 'disconnect' handler ran
ClearedJoined(j) == {}

\* socket.on('disconnect') with a reason other than 'io client disconnect'
onDisconnect(v) == handleReconnection([v EXCEPT !.isConnected = FALSE, !.joinedChats = ClearedJoined(@), !.autoJoinCompleted = FALSE])

\* a disconnect() that leaves the service enabled
disconnectEnabled(v) == [NewService EXCEPT !.onMessageReceived = v.onMessageReceived, !.isEnabled = v.isEnabled]

\* disconnect(): every field back to its initial value; the handlers set by
\* setMessageHandler stay
disconnect(v) == [NewService EXCEPT !.onMessageReceived = v.onMessageReceived]

\* socket.disconnect() on the current socket, as disconnect() calls it
CloseCurrent(n, s) == IF s = NoSocket THEN n ELSE [n EXCEPT !.tstate[s] = "closed", !.srvJoin[s] = {}, !.authPending[s] = 0]

\* ------------------------------------------------------------ join waits
FreeSlots(ws) == {w \in 1..MaxWaits : ws[w].st = "free"}

\* a wait nobody awaits any more, whose timer and listeners are gone, is garbage
Collect(ws) == [w \in 1..MaxWaits |-> IF ws[w].st \in {"true", "false"} /\ ws[w].owner = 0 /\ ~ws[w].timer /\ ~ws[w].lsn THEN FreeWait ELSE ws[w]]

\* joinChatAndWait(chatId) called while this.socket is socket s: the timeout is
\* armed and both one-off listeners are registered on s
NewWait(ws, c, s, owner) ==
  LET w == CHOOSE x \in FreeSlots(ws) : \A y \in FreeSlots(ws) : x <= y
  IN [ws EXCEPT ![w] = [st |-> "pending", chat |-> c, sock |-> s, timer |-> TRUE, lsn |-> TRUE, owner |-> owner]]

NewWaitId(ws) == CHOOSE x \in FreeSlots(ws) : \A y \in FreeSlots(ws) : x <= y

\* socket.emit('join_chat') on socket s: the request is in flight, or buffered
\* by the socket until it is open
EmitJoin(n, s, c) == [n EXCEPT !.srvJoin[s] = @ \cup {c}]

\* socket.emit('authenticate') on this.socket; a null socket throws
EmitAuth(n, s) == IF s = NoSocket THEN n ELSE [n EXCEPT !.authPending[s] = Min(@ + 1, MaxAuth)]

\* ------------------------------------------------------------------ outbox
\* the age test of processMessageQueue
Young(e, t) == t - e.timestamp < QueueTTL

\* joinChat(chatId) reaches joinChatAndWait
JoinEmits(v, c) == v.isEnabled /\ c \notin v.joinedChats /\ v.isConnected /\ v.socket # NoSocket

\* joinChat(chatId) pushes a join_chat entry
JoinQueues(v, c) == v.isEnabled /\ c \notin v.joinedChats /\ ~(v.isConnected /\ v.socket # NoSocket)

\* processMessageQueue: indices of the entries of q, from i on, that are emitted;
\* emitting a send entry on a null socket throws and ends the forEach
RECURSIVE FlushFrom(_, _, _, _)
FlushFrom(q, i, t, v) ==
  IF i > Len(q) THEN {}
  ELSE IF ~Young(q[i], t) THEN FlushFrom(q, i + 1, t, v)
  ELSE IF q[i].type = "send_message"
       THEN (IF v.socket = NoSocket THEN {} ELSE {i} \cup FlushFrom(q, i + 1, t, v))
       ELSE (IF JoinEmits(v, q[i].data.chatId) THEN {i} ELSE {}) \cup FlushFrom(q, i + 1, t, v)

\* processMessageQueue: what the forEach puts on the transport, in the order of
\* its socket.emit calls (joinChat emits join_chat before it returns its promise)
RECURSIVE FlushWire(_, _, _)
FlushWire(q, i, em) ==
  IF i > Len(q) THEN << >>
  ELSE (IF i \in em THEN <<[type |-> q[i].type, data |-> q[i].data]>> ELSE << >>) \o FlushWire(q, i + 1, em)

\* the chats of the join entries among the emitted ones, in queue order
RECURSIVE FlushJoins(_, _, _)
FlushJoins(q, i, em) ==
  IF i > Len(q) THEN << >>
  ELSE IF i \in em /\ q[i].type = "join_chat" THEN <<q[i].data.chatId>> \o FlushJoins(q, i + 1, em)
  ELSE FlushJoins(q, i + 1, em)

RECURSIVE AllocJoins(_, _, _)
AllocJoins(ws, cs, s) == IF cs = << >> THEN ws ELSE AllocJoins(NewWait(ws, Head(cs), s, 0), Tail(cs), s)

RECURSIVE EmitJoins(_, _, _)
EmitJoins(n, cs, s) == IF cs = << >> THEN n ELSE EmitJoins(EmitJoin(n, s, Head(cs)), Tail(cs), s)

\* join entries processMessageQueue hands to joinChat while no socket exists are pushed again
RECURSIVE FlushRequeued(_, _, _, _)
FlushRequeued(q, i, t, v) ==
  IF i > Len(q) THEN << >>
  ELSE IF Young(q[i], t) /\ q[i].type = "send_message" /\ v.socket = NoSocket THEN << >>
  ELSE IF Young(q[i], t) /\ q[i].type = "join_chat" /\ JoinQueues(v, q[i].data.chatId)
       THEN <<[type |-> "join_chat", data |-> q[i].data, timestamp |-> t]>> \o FlushRequeued(q, i + 1, t, v)
  ELSE FlushRequeued(q, i + 1, t, v)

\* a flush that leaves every entry in the outbox
QueueKept(q, t, v) == q

\* processMessageQueue: this.messageQueue after the call. The queue is emptied
\* before the forEach, which pushes again the joins that joinChat could not send
QueueAfterFlush(q, t, v) == FlushRequeued(q, 1, t, v)

\* ------------------------------------------------------ connection actions
\* connectWebSocket of the hook up to the await in connect(serverUrl, userId,
\* username): setConnectionStatus, then connect() up to await Storage.getSecureString
ConnectBegin(urlOk) ==
  /\ out' = NoOut
  /\ app' = [app EXCEPT !.hook.connectionStatus = IF urlOk THEN "connecting" ELSE "disabled"]
  /\ ~connectPending
  /\ svc' = [svc EXCEPT !.userId = Self, !.autoJoinCompleted = FALSE, !.isEnabled = IF urlOk THEN @ ELSE FALSE,
                         !.onMessageReceived = IF urlOk THEN @ ELSE "hook"]
  /\ connectPending' = urlOk
  /\ UNCHANGED <<net, reconnectTimers, passes, waits, leaked, now, gh>>

\* a socket object nobody references: never created, or closed and no longer this.socket
FreeSockets(n, v, maxLive) == {s \in 1..maxLive : n.tstate[s] = "none" \/ (n.tstate[s] = "closed" /\ s # v.socket)}

\* the listeners of the join waits die with the socket object they were registered on
Unlisten(ws, s) == Collect([w \in 1..MaxWaits |-> IF ws[w].sock = s THEN [ws[w] EXCEPT !.lsn = FALSE] ELSE ws[w]])

\* connect() after the await: with a token the socket is created by io(), its
\* listeners are set up and socket.connect() is called; without one the service
\* is disabled. connectWebSocket, the caller, then sets the hook's handlers.
ConnectResume(tok, maxLive, maxMade) ==
  /\ out' = NoOut
  /\ app' = app
  /\ connectPending
  /\ connectPending' = FALSE
  /\ IF tok
     THEN /\ net.created < maxMade
          /\ FreeSockets(net, svc, maxLive) # {}
          /\ LET s == CHOOSE x \in FreeSockets(net, svc, maxLive) : \A y \in FreeSockets(net, svc, maxLive) : x <= y
             IN /\ svc' = [svc EXCEPT !.authToken = TRUE, !.isEnabled = TRUE, !.socket = s, !.onMessageReceived = "hook"]
                /\ net' = [net EXCEPT !.created = @ + 1, !.tstate[s] = "connecting", !.srvJoin[s] = {}, !.authPending[s] = 0]
                /\ waits' = Unlisten(waits, s)
                /\ leaked' = {l \in leaked : l[1] # s}
                /\ gh' = [gh EXCEPT !.autoSent[s] = [c \in Chats |-> 0], !.readySock = IF @ = s THEN 0 ELSE @,
                                    !.dropped = @ \ {s}, !.fresh = @ \ {s}]
     ELSE /\ svc' = [svc EXCEPT !.authToken = FALSE, !.isEnabled = FALSE, !.onMessageReceived = "hook"]
          /\ UNCHANGED <<net, waits, leaked, gh>>
  /\ UNCHANGED <<reconnectTimers, passes, now>>

\* history after disconnect() closed socket s
Forget(g, s) == [g EXCEPT !.readySock = IF @ = s THEN 0 ELSE @,
                          !.dropped = @ \ {s},
                          !.fresh = @ \ {s},
                          !.scheduled = 0,
                          !.refused = FALSE,
                          !.autoSent = [x \in Sockets |-> IF x = s THEN [c \in Chats |-> 0] ELSE @[x]]]

\* disconnectWebSocket of the hook: disconnect(), setConnectionStatus('disconnected'),
\* joinedChatsRef.current.clear()
Disconnect ==
  /\ out' = NoOut
  /\ app' = [app EXCEPT !.hook.connectionStatus = "disconnected", !.hook.joinedChats = {}]
  /\ net' = CloseCurrent(net, svc.socket)
  /\ svc' = disconnect(svc)
  /\ gh' = [Forget(gh, svc.socket) EXCEPT !.stale = reconnectTimers]
  /\ UNCHANGED <<connectPending, reconnectTimers, passes, waits, leaked, now>>

\* socket s opens: the 'connect' handler
TransportOpen(s) ==
  /\ app' = app
  /\ net.tstate[s] = "connecting"
  /\ LET v1 == [svc EXCEPT !.isConnected = TRUE, !.reconnectAttempts = 0]
         q == svc.messageQueue
         em == FlushFrom(q, 1, now, v1)
         js == FlushJoins(q, 1, em)
         v2 == [v1 EXCEPT !.messageQueue = QueueAfterFlush(q, now, v1)]
         thrown == \E i \in 1..Len(q) : Young(q[i], now) /\ q[i].type = "send_message" /\ svc.socket = NoSocket
         n1 == EmitJoins([net EXCEPT !.tstate[s] = "open", !.sent = @ \cup {q[i].data : i \in {x \in em : q[x].type = "send_message"}}], js, svc.socket)
     IN /\ Cardinality(FreeSlots(waits)) >= Len(js)
        /\ svc' = v2
        /\ net' = IF thrown THEN n1 ELSE EmitAuth(n1, svc.socket)
        /\ waits' = AllocJoins(waits, js, svc.socket)
        /\ gh' = [gh EXCEPT !.delays = << >>,
                            !.scheduled = 0,
                            !.refused = FALSE,
                            !.dropped = @ \ {s},
                            !.fresh = IF s \in gh.dropped THEN @ \cup {s} ELSE @]
        /\ out' = [NoOut EXCEPT !.flush = IF q = << >> THEN @ ELSE [at |-> now, entries |-> q, emitted |-> em, left |-> v2.messageQueue, enabled |-> svc.isEnabled, joined |-> svc.joinedChats, wire |-> FlushWire(q, 1, em)]]
  /\ UNCHANGED <<connectPending, reconnectTimers, passes, leaked, now>>

\* the connection of socket s is lost: the 'disconnect' handler with a reason
\* other than 'io client disconnect'
TransportDrop(s, maxF) ==
  /\ out' = NoOut
  /\ app' = app
  /\ net.tstate[s] = "open"
  /\ gh.faults < maxF
  /\ net' = [net EXCEPT !.tstate[s] = "closed", !.srvJoin[s] = {}, !.authPending[s] = 0]
  /\ svc' = onDisconnect(svc)
  /\ reconnectTimers' = IF ReconnectScheduled(svc) THEN reconnectTimers + 1 ELSE reconnectTimers
  /\ gh' = [NoteReconnect(gh, svc) EXCEPT !.faults = @ + 1,
                                          !.dropped = @ \cup {s},
                                          !.fresh = @ \ {s},
                                          !.readySock = IF @ = s THEN 0 ELSE @,
                                          !.autoSent[s] = [c \in Chats |-> 0]]
  /\ UNCHANGED <<connectPending, passes, waits, leaked, now>>

\* socket s fails to connect: the 'connect_error' handler
ConnectError(s, maxF) ==
  /\ out' = NoOut
  /\ app' = app
  /\ net.tstate[s] = "connecting"
  /\ gh.faults < maxF
  /\ net' = [net EXCEPT !.tstate[s] = "closed"]
  /\ svc' = handleReconnection(svc)
  /\ reconnectTimers' = IF ReconnectScheduled(svc) THEN reconnectTimers + 1 ELSE reconnectTimers
  /\ gh' = [NoteReconnect(gh, svc) EXCEPT !.faults = @ + 1]
  /\ UNCHANGED <<connectPending, passes, waits, leaked, now>>

\* the reconnect timer that fires acts on what this.socket is now
TimerActs(v) == v.isEnabled /\ v.socket # NoSocket /\ ~v.isConnected

\* the callback handleReconnection passed to setTimeout; the timer that fires
\* was scheduled before the last disconnect() (old) or after it
ReconnectTimer ==
  /\ app' = app
  /\ reconnectTimers > 0
  /\ reconnectTimers' = reconnectTimers - 1
  /\ \E old \in BOOLEAN :
       /\ IF old THEN gh.stale > 0 ELSE reconnectTimers > gh.stale
       /\ gh' = [gh EXCEPT !.stale = IF old THEN @ - 1 ELSE @]
       /\ out' = [NoOut EXCEPT !.timer = IF old THEN "stale" ELSE "own"]
  /\ IF TimerActs(svc)
     THEN /\ svc' = [svc EXCEPT !.autoJoinCompleted = FALSE]
          /\ net' = [net EXCEPT !.tstate[svc.socket] = IF @ = "closed" THEN "connecting" ELSE @]
     ELSE UNCHANGED <<svc, net>>
  /\ UNCHANGED <<connectPending, passes, waits, leaked, now>>

\* autoJoinUserChatsWithRetry after autoJoinUserChats returned success: the
\* flag is set on success and after the last attempt, else the next attempt
\* follows the 2 s wait
AfterAttempt(pass, success) ==
  IF success \/ pass.attempt >= maxAutoJoinRetries - 1 THEN IdlePass
  ELSE [IdlePass EXCEPT !.pc = "attempt", !.attempt = pass.attempt + 1]

CompletedAfter(pass, success, completed) == IF success \/ pass.attempt >= maxAutoJoinRetries - 1 THEN TRUE ELSE completed

\* the first check of autoJoinUserChats fails
CannotJoin(v) == ~v.isConnected \/ v.userId = 0

\* the pass an 'authenticated' handler starts when autoJoinCompleted is false:
\* autoJoinUserChatsWithRetry runs, within the handler, up to the first await
\* of its first attempt
StartPass(ps, v) ==
  IF v.autoJoinCompleted THEN ps
  ELSE LET p == CHOOSE x \in 1..MaxPasses : ps[x].pc = "idle" /\ \A y \in 1..MaxPasses : ps[y].pc = "idle" => x <= y
       IN [ps EXCEPT ![p] = IF CannotJoin(v) THEN AfterAttempt([IdlePass EXCEPT !.pc = "attempt"], FALSE)
                            ELSE [IdlePass EXCEPT !.pc = "fetch"]]

\* the server answers an authenticate request on socket s: the 'authenticated' handler
Authenticated(s, success) ==
  /\ out' = [NoOut EXCEPT !.auth = IF success THEN "accepted" ELSE "rejected"]
  /\ app' = app
  /\ net.tstate[s] = "open"
  /\ net.authPending[s] > 0
  /\ IF success
     THEN /\ svc.autoJoinCompleted \/ \E p \in 1..MaxPasses : passes[p].pc = "idle"
          /\ passes' = StartPass(passes, svc)
          /\ net' = [net EXCEPT !.authPending[s] = @ - 1]
          /\ gh' = [gh EXCEPT !.readyFlag = TRUE, !.readySock = s, !.settledBad = FALSE]
          /\ svc' = svc
     ELSE /\ net' = CloseCurrent([net EXCEPT !.authPending[s] = @ - 1], svc.socket)
          /\ svc' = disconnect(svc)
          /\ gh' = [Forget(gh, svc.socket) EXCEPT !.stale = reconnectTimers]
          /\ passes' = passes
  /\ UNCHANGED <<connectPending, reconnectTimers, waits, leaked, now>>

\* time passes
Tick ==
  /\ out' = NoOut
  /\ app' = app
  /\ svc.messageQueue # << >>
  /\ now < MaxTime * TickMs
  /\ now' = now + TickMs
  /\ UNCHANGED <<svc, net, connectPending, reconnectTimers, passes, waits, leaked, gh>>

\* getConnectionStatus(): the fields the hook reads
getConnectionStatus(v) == [enabled |-> v.isEnabled, connected |-> v.isConnected, joinedChats |-> v.joinedChats, autoJoinCompleted |-> v.autoJoinCompleted, reconnectAttempts |-> v.reconnectAttempts]

\* checkConnectionStatus of the hook, with a user logged in: the hook state
\* after it read status st
checkConnectionStatus(h, st) ==
  [h EXCEPT !.connectionStatus = IF ~st.enabled THEN "disabled" ELSE IF st.connected THEN "connected" ELSE "connecting",
            !.joinedChats = IF st.enabled /\ st.connected THEN st.joinedChats ELSE @]

\* the 2 s interval of the hook fires
CheckConnectionStatus ==
  /\ out' = NoOut
  /\ app' = [app EXCEPT !.hook = checkConnectionStatus(@, getConnectionStatus(svc))]
  /\ app' # app
  /\ UNCHANGED <<svc, net, connectPending, reconnectTimers, passes, waits, leaked, now, gh>>

\* ------------------------------------------------------------- join events
\* the pending waits whose one-off listeners are registered on s for chat c
Listening(ws, s, c) == {w \in 1..MaxWaits : ws[w].st = "pending" /\ ws[w].lsn /\ ws[w].sock = s /\ ws[w].chat = c}

\* joinHandler / errorHandler / the timeout callback of the waits in M end them
\* with result res: clearTimeout, this.socket.off and resolve
Resolved(ws, M, res) == [w \in 1..MaxWaits |-> IF w \in M THEN [ws[w] EXCEPT !.st = res, !.timer = FALSE, !.lsn = FALSE] ELSE ws[w]]

\* this.socket.off removes the listeners only from the current socket
LeftBehind(ws, M, cur) == {<<ws[w].sock, ws[w].chat>> : w \in {x \in M : ws[x].lsn /\ ws[x].sock # cur}}

\* the server confirms a join: the 'joined_chat' handler of setupEventListeners,
\* then the joinHandler of every wait listening on s
JoinedChat(s, c) ==
  /\ out' = [NoOut EXCEPT !.jev = [kind |-> "joined", chat |-> c]]
  /\ app' = app
  /\ net.tstate[s] = "open"
  /\ c \in net.srvJoin[s]
  /\ net' = [net EXCEPT !.srvJoin[s] = @ \ {c}]
  /\ svc' = [svc EXCEPT !.joinedChats = @ \cup {c}]
  /\ LET M == Listening(waits, s, c)
     IN IF svc.socket # NoSocket
        THEN /\ waits' = Collect(Resolved(waits, M, "true"))
             /\ leaked' = leaked \cup LeftBehind(waits, M, svc.socket)
        ELSE /\ leaked' = leaked
             /\ IF M = {} THEN waits' = waits
                ELSE \E w \in M : waits' = [waits EXCEPT ![w].timer = FALSE]
  /\ gh' = [gh EXCEPT !.fresh = @ \ {s}]
  /\ UNCHANGED <<connectPending, reconnectTimers, passes, now>>

\* the server rejects a join: the 'join_chat_error' handler, then the
\* errorHandler of every wait listening on s
JoinError(s, c) ==
  /\ out' = [NoOut EXCEPT !.jev = [kind |-> "error", chat |-> c]]
  /\ app' = app
  /\ net.tstate[s] = "open"
  /\ c \in net.srvJoin[s]
  /\ net' = [net EXCEPT !.srvJoin[s] = @ \ {c}]
  /\ LET M == Listening(waits, s, c)
     IN IF svc.socket # NoSocket
        THEN /\ waits' = Collect(Resolved(waits, M, "false"))
             /\ leaked' = leaked \cup LeftBehind(waits, M, svc.socket)
        ELSE /\ leaked' = leaked
             /\ IF M = {} THEN waits' = waits
                ELSE \E w \in M : waits' = [waits EXCEPT ![w].timer = FALSE]
  /\ gh' = [gh EXCEPT !.settledBad = TRUE]
  /\ UNCHANGED <<svc, connectPending, reconnectTimers, passes, now>>

\* the timeout callback of joinChatAndWait; this.socket.off throws when
\* this.socket is null, before resolve(false)
WaitTimeout(w) ==
  /\ out' = [NoOut EXCEPT !.jev = [kind |-> "timeout", chat |-> waits[w].chat]]
  /\ app' = app
  /\ waits[w].timer
  /\ IF svc.socket = NoSocket
     THEN /\ waits' = [waits EXCEPT ![w].timer = FALSE]
          /\ leaked' = leaked
     ELSE /\ waits' = Collect(Resolved(waits, {w}, "false"))
          /\ leaked' = leaked \cup LeftBehind(waits, {w}, svc.socket)
  /\ gh' = [gh EXCEPT !.settledBad = TRUE]
  /\ UNCHANGED <<svc, net, connectPending, reconnectTimers, passes, now>>

\* ---------------------------------------------------------- auto-join pass
\* a later attempt of the pass, after the 2 s wait: autoJoinUserChats up to the
\* dynamic import
PassBegin(p) ==
  /\ out' = NoOut
  /\ app' = app
  /\ passes[p].pc = "attempt"
  /\ IF CannotJoin(svc)
     THEN /\ passes' = [passes EXCEPT ![p] = AfterAttempt(@, FALSE)]
          /\ svc' = [svc EXCEPT !.autoJoinCompleted = CompletedAfter(passes[p], FALSE, @)]
     ELSE /\ passes' = [passes EXCEPT ![p].pc = "fetch"]
          /\ svc' = svc
  /\ UNCHANGED <<net, connectPending, reconnectTimers, waits, leaked, now, gh>>

\* autoJoinUserChats: getUserChats(this.userId) returns
PassFetch(p) ==
  /\ out' = NoOut
  /\ app' = app
  /\ passes[p].pc = "fetch"
  /\ LET cs == getUserChats(svc.userId)
     IN IF Len(cs) = 0
        THEN /\ passes' = [passes EXCEPT ![p] = AfterAttempt(@, TRUE)]
             /\ svc' = [svc EXCEPT !.autoJoinCompleted = CompletedAfter(passes[p], TRUE, @)]
        ELSE /\ passes' = [passes EXCEPT ![p].pc = "loop", ![p].idx = 1, ![p].succ = 0, ![p].chats = cs]
             /\ svc' = svc
  /\ UNCHANGED <<net, connectPending, reconnectTimers, waits, leaked, now, gh>>

\* the pass skips a chat that is in joinedChats
SkipJoined(j, c) == c \in j

\* autoJoinUserChats: one iteration of the for loop, or its end
PassLoop(p) ==
  LET ps == passes[p]
  IN /\ out' = NoOut
     /\ app' = app
     /\ ps.pc = "loop"
     /\ IF ps.idx > Len(ps.chats)
        THEN /\ passes' = [passes EXCEPT ![p] = AfterAttempt(@, ps.succ = Len(ps.chats))]
             /\ svc' = [svc EXCEPT !.autoJoinCompleted = CompletedAfter(ps, ps.succ = Len(ps.chats), @)]
             /\ UNCHANGED <<net, waits, gh>>
        ELSE IF SkipJoined(svc.joinedChats, ps.chats[ps.idx])
        THEN /\ passes' = [passes EXCEPT ![p].idx = @ + 1, ![p].succ = @ + 1]
             /\ UNCHANGED <<svc, net, waits, gh>>
        ELSE IF svc.socket = NoSocket
        THEN /\ passes' = [passes EXCEPT ![p].idx = @ + 1]
             /\ UNCHANGED <<svc, net, waits, gh>>
        ELSE /\ FreeSlots(waits) # {}
             /\ passes' = [passes EXCEPT ![p].pc = "waitJoin", ![p].w = NewWaitId(waits)]
             /\ waits' = NewWait(waits, ps.chats[ps.idx], svc.socket, p)
             /\ net' = EmitJoin(net, svc.socket, ps.chats[ps.idx])
             /\ gh' = [gh EXCEPT !.autoSent[svc.socket][ps.chats[ps.idx]] = Min(@ + 1, 2)]
             /\ svc' = svc
     /\ UNCHANGED <<connectPending, reconnectTimers, leaked, now>>

\* autoJoinUserChats: joinChatAndWait resolved; the 300 ms delay follows
PassJoinDone(p) ==
  LET ps == passes[p]
  IN /\ out' = NoOut
     /\ app' = app
     /\ ps.pc = "waitJoin"
     /\ waits[ps.w].st \in {"true", "false"}
     /\ passes' = [passes EXCEPT ![p].pc = "loop", ![p].idx = @ + 1, ![p].w = 0,
                                 ![p].succ = IF waits[ps.w].st = "true" THEN @ + 1 ELSE @]
     /\ waits' = Collect([waits EXCEPT ![ps.w].owner = 0])
     /\ UNCHANGED <<svc, net, connectPending, reconnectTimers, leaked, now, gh>>

\* ------------------------------------------------------------- service API
\* joinChat(chatId), from a caller that does not use the result
JoinChat(c) ==
  /\ out' = NoOut
  /\ app' = app
  /\ svc.isEnabled
  /\ c \notin svc.joinedChats
  /\ IF JoinEmits(svc, c)
     THEN /\ FreeSlots(waits) # {}
          /\ waits' = NewWait(waits, c, svc.socket, 0)
          /\ net' = EmitJoin(net, svc.socket, c)
          /\ svc' = svc
     ELSE /\ Len(svc.messageQueue) < MaxQueue
          /\ svc' = [svc EXCEPT !.messageQueue = Append(@, [type |-> "join_chat", data |-> JoinData(c), timestamp |-> now])]
          /\ UNCHANGED <<net, waits>>
  /\ UNCHANGED <<connectPending, reconnectTimers, passes, leaked, now, gh>>

\* joinChat(chatId): what the call returns, "wait" standing for the result of
\* joinChatAndWait
joinChatReturn(v, c) ==
  IF ~v.isEnabled THEN "false"
  ELSE IF c \in v.joinedChats THEN "true"
  ELSE IF v.isConnected /\ v.socket # NoSocket THEN "wait"
  ELSE "false"

\* a leaveChat that did leave: the chat is taken out of joinedChats
leaveChatRemoves(v, c) == [v EXCEPT !.joinedChats = @ \ {c}]

\* leaveChat(chatId): the service after the call; the body only logs
leaveChat(v, c) == v

\* WebSocketService.leaveChat(chatId), as ChatScreen calls it when the screen
\* loses focus or unmounts
LeaveChat(c) ==
  /\ out' = [NoOut EXCEPT !.jev = [kind |-> "leave", chat |-> c]]
  /\ svc' = leaveChat(svc, c)
  /\ UNCHANGED <<net, connectPending, reconnectTimers, passes, waits, leaked, now, app, gh>>

\* leaveChat(chatId) of the hook, as ChatContext.leaveChat calls it; the body only logs
HookLeaveChat(c) ==
  /\ out' = [NoOut EXCEPT !.jev = [kind |-> "hookLeave", chat |-> c]]
  /\ UNCHANGED <<svc, net, connectPending, reconnectTimers, passes, waits, leaked, now, app, gh>>

\* sendMessage transmits at once
SendEmits(v) == v.isConnected /\ v.socket # NoSocket

\* sendMessage(messageData): the service after the call
sendMessage(v, data, t) ==
  IF ~v.isEnabled \/ SendEmits(v) THEN v
  ELSE [v EXCEPT !.messageQueue = Append(@, [type |-> "send_message", data |-> data, timestamp |-> t])]

\* sendMessage(messageData): what socket.emit('send_message') put on the transport
Sent(n, v, data) == IF v.isEnabled /\ SendEmits(v) THEN [n EXCEPT !.sent = @ \cup {data}] ELSE n

\* the bounded outbox has room for what sendMessage would push
QueueRoom(v) == (v.isEnabled /\ ~SendEmits(v)) => Len(v.messageQueue) < MaxQueue

\* what a sendMessage call that took the service from v to v2 did
CallOf(v, v2) == [op |-> "send", emitted |-> IF v.isEnabled /\ SendEmits(v) THEN 1 ELSE 0, queued |-> Len(v2.messageQueue) - Len(v.messageQueue), enabled |-> v.isEnabled, connected |-> v.isConnected /\ v.socket # NoSocket]

\* sendMessage(messageData) called with the persisted message m
SendMessage(m) ==
  LET data == MsgData(RowId(m), ScreenChat, Self, m)
  IN /\ QueueRoom(svc)
     /\ svc' = sendMessage(svc, data, now)
     /\ net' = Sent(net, svc, data)
     /\ out' = [NoOut EXCEPT !.call = CallOf(svc, svc')]
     /\ UNCHANGED <<connectPending, reconnectTimers, passes, waits, leaked, now, app, gh>>

\* -------------------------------------------------------- message pipeline
ProcessedCap == 1000
ProcessedDrop == 500
SaveResults == {"ok", "insertFailed", "updateFailed"}

\* new_message events of the peer: message m, in chat ChatOf(m)
ChatOf(m) == ((m - 1) % NumChats) + 1
PeerEvents == {MsgData(Id("msg", Other, m), ChatOf(m), Other, m) : m \in Msgs}

\* new_message events of messages the peers sent from their ChatScreen: the
\* m-th row of the sender's own table
PeerScreenEvents == {MsgData(RowId(m), ChatOf(m), u, m) : u \in {Other, Third}, m \in Msgs}

InSeq(x, q) == \E i \in 1..Len(q) : q[i] = x

\* a clean-up that removes the 500 latest ids
RememberOldest(pm, id) ==
  LET a == Append(pm, id)
  IN IF Len(a) > ProcessedCap THEN SubSeq(a, 1, Len(a) - ProcessedDrop) ELSE a

\* handleIncomingMessage: processedMessages.add(messageId), then the clean-up
Remember(pm, id) ==
  LET a == Append(pm, id)
  IN IF Len(a) > ProcessedCap THEN SubSeq(a, ProcessedDrop + 1, Len(a)) ELSE a

\* the row saveMessage inserts; by records the path that wrote it
Row(d, by) == [chat_id |-> d.chatId, sender_id |-> d.senderId, n |-> d.n, by |-> by]

\* a store whose INSERT writes the row twice
saveMessageTwice(rows, row, res) == IF res = "insertFailed" THEN rows ELSE Append(Append(rows, row), row)

\* DatabaseService.saveMessage: the messages table after the call. The INSERT
\* adds a row with a fresh id; the call throws when the INSERT or the UPDATE
\* of chats.updated_at fails
saveMessage(rows, row, res) == IF res = "insertFailed" THEN rows ELSE Append(rows, row)

\* the Message rows stored for the message carried by d
RowsFor(d) == {i \in 1..Len(app.db) : app.db[i].chat_id = d.chatId /\ app.db[i].sender_id = d.senderId /\ app.db[i].n = d.n}

\* ChatScreen.handleNewMessage(data)
handleNewMessage(a, d, res) ==
  IF d.chatId # ScreenChat THEN a
  ELSE IF d.messageId \in a.screen.processedMessageIds THEN a
  ELSE IF d.senderId = Self THEN a
  ELSE [a EXCEPT !.screen.processedMessageIds = @ \cup {d.messageId},
                 !.screen.messages = IF \E i \in 1..Len(@) : @[i].id = d.messageId THEN @
                                     ELSE Append(@, [id |-> d.messageId, sender_id |-> d.senderId, n |-> d.n, pending |-> FALSE]),
                 !.db = saveMessage(@, Row(d, "receive"), res)]

\* ChatContext.handleIncomingMessage(messageData), reached through the hook's
\* handleIncomingMessage; a decryption error ends the handler in its catch
handleIncomingMessage(a, d, decOk, res) ==
  IF ~decOk THEN a
  ELSE [a EXCEPT !.ctx = Append(@, [id |-> d.messageId, sender_id |-> d.senderId, n |-> d.n, pending |-> FALSE]),
                 !.db = saveMessage(@, Row(d, "receive"), res)]

\* this.onMessageReceived(data)
Dispatch(h, a, d, decOk, res) ==
  IF h = "screen" THEN handleNewMessage(a, d, res)
  ELSE IF h = "hook" THEN handleIncomingMessage(a, d, decOk, res)
  ELSE a

\* socket.on('new_message') on socket s: WebSocketService.handleIncomingMessage(data)
NewMessage(s, d, decOk, res) ==
  /\ net.tstate[s] = "open"
  /\ app.nDeliv < MaxDeliveries
  /\ LET dup == InSeq(d.messageId, svc.processedMessages)
         a == [app EXCEPT !.nDeliv = @ + 1, !.delivered = @ \cup {d},
                          !.redelivered = IF d \in app.delivered THEN @ \cup {d} ELSE @]
     IN /\ svc' = IF dup THEN svc ELSE [svc EXCEPT !.processedMessages = Remember(@, d.messageId)]
        /\ app' = IF dup THEN a ELSE Dispatch(svc.onMessageReceived, a, d, decOk, res)
        /\ out' = [NoOut EXCEPT !.recv = [again |-> d \in app.delivered, own |-> d.senderId = Self,
                                          changed |-> app'.db # app.db \/ app'.screen.messages # app.screen.messages \/ app'.ctx # app.ctx,
                                          first |-> d \notin app.delivered,
                                          fine |-> decOk /\ res = "ok",
                                          stored |-> Len(app'.db) > Len(app.db),
                                          discarded |-> dup,
                                          dec |-> decOk,
                                          id |-> d.messageId,
                                          shown |-> Len(app'.screen.messages) > Len(app.screen.messages) \/ Len(app'.ctx) > Len(app.ctx)]]
  /\ UNCHANGED <<net, connectPending, reconnectTimers, passes, waits, leaked, now, gh>>

\* ChatScreen.setupWebSocketHandlers
setupWebSocketHandlers ==
  /\ out' = NoOut
  /\ svc.onMessageReceived # "screen"
  /\ svc' = [svc EXCEPT !.onMessageReceived = "screen"]
  /\ UNCHANGED <<net, connectPending, reconnectTimers, passes, waits, leaked, now, app, gh>>

\* the connection state a send meets
ConnState(v) == IF ~v.isEnabled THEN "disabled" ELSE IF SendEmits(v) THEN "connected" ELSE "reconnecting"

\* ChatScreen.sendMessage(messageText) up to the first await: the guard, the
\* optimistic entry
ScreenSendBegin(textOk) ==
  /\ out' = NoOut
  /\ IF ~textOk \/ app.screen.sendingMessage
     THEN app' = app
     ELSE LET n == app.nSends + 1
          IN /\ app.nSends < MaxSends
             /\ app' = [app EXCEPT !.nSends = n,
                                   !.screen.sendingMessage = TRUE,
                                   !.screen.draft = n,
                                   !.screen.processedMessageIds = @ \cup {Id("local", Self, n)},
                                   !.screen.messages = Append(@, [id |-> Id("local", Self, n), sender_id |-> Self, n |-> n, pending |-> TRUE])]
  /\ UNCHANGED <<svc, net, connectPending, reconnectTimers, passes, waits, leaked, now, gh>>

\* the list after the pending entry got its row id
Confirmed(ms, lid, rid) == [i \in 1..Len(ms) |-> IF ms[i].id = lid THEN [ms[i] EXCEPT !.pending = FALSE, !.id = rid] ELSE ms[i]]

\* prev.filter(msg => !msg.pending)
RECURSIVE NotPending(_)
NotPending(ms) == IF ms = << >> THEN << >> ELSE (IF Head(ms).pending THEN << >> ELSE <<Head(ms)>>) \o NotPending(Tail(ms))

\* a catch block that clears the whole list
RollBackAll(ms) == << >>

\* the catch block of ChatScreen.sendMessage: setMessages(prev => prev.filter(msg => !msg.pending))
RollBack(ms) == NotPending(ms)

\* ChatScreen.sendMessage after encryption: saveMessage, WebSocketService.sendMessage,
\* the list update; the catch block when saveMessage throws; finally
ScreenSendFinish(res) ==
  LET n == app.screen.draft
      rows == saveMessage(app.db, Row(MsgData(NoId, ScreenChat, Self, n), "send"), res)
      data == MsgData(RowId(Len(rows)), ScreenChat, Self, n)
  IN /\ out' = [NoOut EXCEPT !.call = [NoCall EXCEPT !.op = IF res = "ok" THEN "screenSent" ELSE "screenFailed"]]
     /\ n # 0
     /\ QueueRoom(svc)
     /\ svc' = IF res = "ok" THEN sendMessage(svc, data, now) ELSE svc
     /\ net' = IF res = "ok" THEN Sent(net, svc, data) ELSE net
     /\ app' = [app EXCEPT !.db = rows,
                           !.screen.sendingMessage = FALSE,
                           !.screen.draft = 0,
                           !.screen.messages = IF res = "ok" THEN Confirmed(@, Id("local", Self, n), data.messageId) ELSE RollBack(@),
                           !.sends = Append(@, [n |-> n, path |-> "screen", ok |-> res = "ok", conn |-> ConnState(svc)])]
     /\ UNCHANGED <<connectPending, reconnectTimers, passes, waits, leaked, now, gh>>

\* ChatContext.sendMessage(chatId, messageText, recipientPublicKey): encryption,
\* wsSendMessage, the optimistic entry, saveMessage. forwarded: the hook's
\* sendMessage reaches WebSocketService.sendMessage
CtxSend(c, encOk, forwarded, res) ==
  LET n == app.nSends + 1
      data == MsgData(Id("msg", Self, n), c, Self, n)
  IN /\ out' = [NoOut EXCEPT !.call = [NoCall EXCEPT !.op = IF encOk THEN "ctxSend" ELSE "ctxEncFailed"]]
     /\ app.nSends < MaxSends
     /\ app.screen.draft = 0
     /\ QueueRoom(svc)
     /\ svc' = IF encOk /\ forwarded THEN sendMessage(svc, data, now) ELSE svc
     /\ net' = IF encOk /\ forwarded THEN Sent(net, svc, data) ELSE net
     /\ app' = IF ~encOk
               THEN [app EXCEPT !.nSends = n, !.sends = Append(@, [n |-> n, path |-> "context", ok |-> FALSE, conn |-> ConnState(svc)])]
               ELSE [app EXCEPT !.nSends = n,
                                !.ctx = Append(@, [id |-> Id("temp", Self, n), sender_id |-> Self, n |-> n, pending |-> TRUE]),
                                !.db = saveMessage(@, Row(data, "send"), res),
                                !.sends = Append(@, [n |-> n, path |-> "context", ok |-> res = "ok", conn |-> ConnState(svc)])]
     /\ UNCHANGED <<connectPending, reconnectTimers, passes, waits, leaked, now, gh>>

\* ------------------------------------------------------- the hook's sendMessage
\* owner of the join wait a hook send awaits
HookOwner == MaxPasses + 1

\* the messageData ChatContext hands to the hook for the n-th message; it has
\* no messageId, WebSocketService.sendMessage generates one
HookData(c, n) == MsgData(Id("msg", Self, n), c, Self, n)

\* ensureInChat(chatId) returns true without waiting
AlreadyIn(v, c) == c \in v.joinedChats

\* ensureInChat(chatId): what the call returns
ensureInChatReturn(v, c) == IF AlreadyIn(v, c) THEN "true" ELSE joinChatReturn(v, c)

\* sendMessage(messageData) of the hook up to await ensureInChat: the status
\* guard, the joinedChatsRef test, then ensureInChat -> joinChat, which returns
\* at once (disabled, already joined, or not connected: the join is queued) or
\* waits in joinChatAndWait; when it returned at once WebSocketService.sendMessage
\* follows
HookSendBegin(c) ==
  LET h == app.hook
      n == app.nSends + 1
      data == HookData(c, n)
      vq == IF c \notin h.joinedChats /\ JoinQueues(svc, c) THEN [svc EXCEPT !.messageQueue = Append(@, [type |-> "join_chat", data |-> JoinData(c), timestamp |-> now])] ELSE svc
  IN /\ h.pc = "idle"
     /\ IF h.connectionStatus = "disabled"
        THEN /\ out' = NoOut
             /\ UNCHANGED <<svc, net, waits, app>>
        ELSE /\ app.nSends < MaxSends
             /\ Len(svc.messageQueue) + 2 <= MaxQueue
             /\ IF c \notin h.joinedChats /\ ~AlreadyIn(svc, c) /\ JoinEmits(svc, c)
                THEN /\ FreeSlots(waits) # {}
                     /\ waits' = NewWait(waits, c, svc.socket, HookOwner)
                     /\ net' = EmitJoin(net, svc.socket, c)
                     /\ app' = [app EXCEPT !.nSends = n, !.hook.pc = "waiting", !.hook.chat = c, !.hook.n = n, !.hook.w = NewWaitId(waits)]
                     /\ out' = NoOut
                     /\ svc' = svc
                ELSE /\ svc' = sendMessage(vq, data, now)
                     /\ net' = Sent(net, vq, data)
                     /\ app' = [app EXCEPT !.nSends = n, !.hook.joinedChats = IF c \notin @ /\ AlreadyIn(svc, c) THEN @ \cup {c} ELSE @]
                     /\ out' = [NoOut EXCEPT !.call = CallOf(vq, svc')]
                     /\ waits' = waits
     /\ UNCHANGED <<connectPending, reconnectTimers, passes, leaked, now, gh>>

\* sendMessage(messageData) of the hook after await ensureInChat: the join
\* wait resolved; joinedChatsRef is updated and WebSocketService.sendMessage called
HookSendResume ==
  LET h == app.hook
      data == HookData(h.chat, h.n)
  IN /\ h.pc = "waiting"
     /\ waits[h.w].st \in {"true", "false"}
     /\ QueueRoom(svc)
     /\ svc' = sendMessage(svc, data, now)
     /\ net' = Sent(net, svc, data)
     /\ out' = [NoOut EXCEPT !.call = CallOf(svc, svc')]
     /\ waits' = Collect([waits EXCEPT ![h.w].owner = 0])
     /\ app' = [app EXCEPT !.hook.pc = "idle", !.hook.chat = 0, !.hook.n = 0, !.hook.w = 0,
                           !.hook.joinedChats = IF waits[h.w].st = "true" THEN @ \cup {h.chat} ELSE @]
     /\ UNCHANGED <<connectPending, reconnectTimers, passes, leaked, now, gh>>

\* ------------------------------------------------------------ specifications
\* connection state machine: connect, disconnect, transport events, backoff
NextBackoff ==
  \/ \E urlOk \in BOOLEAN : ConnectBegin(urlOk)
  \/ \E tok \in BOOLEAN : ConnectResume(tok, MaxSockets, MaxSockets)
  \/ Disconnect
  \/ \E s \in Sockets : TransportOpen(s)
  \/ \E s \in Sockets : TransportDrop(s, MaxFaults)
  \/ \E s \in Sockets : ConnectError(s, MaxFaults)
  \/ ReconnectTimer
  \/ \E s \in Sockets, success \in BOOLEAN : Authenticated(s, success)

SpecBackoff == Init /\ [][NextBackoff]_vars

\* callers of sendMessage in every connection state
NextSend ==
  \/ \E urlOk \in BOOLEAN : ConnectBegin(urlOk)
  \/ \E tok \in BOOLEAN : ConnectResume(tok, MaxLive, MaxSockets)
  \/ Disconnect
  \/ \E s \in Sockets : TransportOpen(s)
  \/ \E s \in Sockets : TransportDrop(s, MaxDrops)
  \/ ReconnectTimer
  \/ \E m \in Msgs : SendMessage(m)

SpecSend == Init /\ [][NextSend]_vars

\* the outbox: sends and joins queued and flushed as time passes
NextOutbox ==
  \/ \E urlOk \in BOOLEAN : ConnectBegin(urlOk)
  \/ \E tok \in BOOLEAN : ConnectResume(tok, MaxLive, MaxLive)
  \/ Disconnect
  \/ \E s \in Sockets : TransportOpen(s)
  \/ \E s \in Sockets : TransportDrop(s, MaxDrops)
  \/ ReconnectTimer
  \/ \E m \in Msgs : SendMessage(m)
  \/ \E c \in Chats : JoinChat(c)
  \/ \E s \in Sockets, c \in Chats : JoinedChat(s, c)
  \/ \E w \in 1..MaxWaits : WaitTimeout(w)
  \/ Tick

SpecOutbox == Init /\ [][NextOutbox]_vars

\* joins confirmed while connect() is called again
NextRejoin ==
  \/ \E urlOk \in BOOLEAN : ConnectBegin(urlOk)
  \/ \E tok \in BOOLEAN : ConnectResume(tok, MaxSockets, MaxSockets)
  \/ Disconnect
  \/ \E s \in Sockets : TransportOpen(s)
  \/ \E s \in Sockets : TransportDrop(s, MaxDrops)
  \/ ReconnectTimer
  \/ \E c \in Chats : JoinChat(c)
  \/ \E s \in Sockets, c \in Chats : JoinedChat(s, c)
  \/ \E w \in 1..MaxWaits : WaitTimeout(w)

SpecRejoin == Init /\ [][NextRejoin]_vars

\* the send path of ChatScreen and ChatContext in every connection state
NextStore ==
  \/ \E urlOk \in BOOLEAN : ConnectBegin(urlOk)
  \/ \E tok \in BOOLEAN : ConnectResume(tok, MaxLive, MaxSockets)
  \/ Disconnect
  \/ \E s \in Sockets : TransportOpen(s)
  \/ \E s \in Sockets : TransportDrop(s, MaxDrops)
  \/ ReconnectTimer
  \/ \E textOk \in BOOLEAN : ScreenSendBegin(textOk)
  \/ \E res \in SaveResults : ScreenSendFinish(res)
  \/ \E c \in Chats, encOk \in BOOLEAN, forwarded \in BOOLEAN, res \in SaveResults : CtxSend(c, encOk, forwarded, res)

SpecStore == Init /\ [][NextStore]_vars

\* the receive path: inbound events, and the echo of sent messages, around
\* connects and disconnects
NextReceive ==
  \/ \E urlOk \in BOOLEAN : ConnectBegin(urlOk)
  \/ \E tok \in BOOLEAN : ConnectResume(tok, MaxLive, MaxSockets)
  \/ Disconnect
  \/ \E s \in Sockets : TransportOpen(s)
  \/ \E s \in Sockets : TransportDrop(s, MaxDrops)
  \/ ReconnectTimer
  \/ setupWebSocketHandlers
  \/ \E s \in Sockets, d \in PeerEvents \cup net.sent, decOk \in BOOLEAN, res \in SaveResults : NewMessage(s, d, decOk, res)
  \/ \E textOk \in BOOLEAN : ScreenSendBegin(textOk)
  \/ ScreenSendFinish("ok")
  \/ \E c \in Chats : CtxSend(c, TRUE, TRUE, "ok")

SpecReceive == Init /\ [][NextReceive]_vars

\* room reconciliation on one socket
NextJoin ==
  \/ \E urlOk \in BOOLEAN : ConnectBegin(urlOk)
  \/ \E tok \in BOOLEAN : ConnectResume(tok, MaxLive, MaxLive)
  \/ Disconnect
  \/ \E s \in Sockets : TransportOpen(s)
  \/ \E s \in Sockets : TransportDrop(s, MaxDrops)
  \/ \E s \in Sockets : ConnectError(s, MaxDrops)
  \/ ReconnectTimer
  \/ \E s \in Sockets, success \in BOOLEAN : Authenticated(s, success)
  \/ \E s \in Sockets, c \in Chats : JoinedChat(s, c)
  \/ \E s \in Sockets, c \in Chats : JoinError(s, c)
  \/ \E w \in 1..MaxWaits : WaitTimeout(w)
  \/ \E p \in 1..MaxPasses : PassBegin(p)
  \/ \E p \in 1..MaxPasses : PassFetch(p)
  \/ \E p \in 1..MaxPasses : PassLoop(p)
  \/ \E p \in 1..MaxPasses : PassJoinDone(p)

SpecJoin == Init /\ [][NextJoin]_vars

\* the retry cap: more faults than reconnect attempts, on one socket at a time
NextCap ==
  \/ \E urlOk \in BOOLEAN : ConnectBegin(urlOk)
  \/ \E tok \in BOOLEAN : ConnectResume(tok, MaxLive, MaxSockets)
  \/ Disconnect
  \/ \E s \in Sockets : TransportOpen(s)
  \/ \E s \in Sockets : TransportDrop(s, MaxCapFaults)
  \/ \E s \in Sockets : ConnectError(s, MaxCapFaults)
  \/ ReconnectTimer

SpecCap == Init /\ [][NextCap]_vars

\* the receive path for messages the peers sent from their ChatScreen
NextKeys ==
  \/ \E urlOk \in BOOLEAN : ConnectBegin(urlOk)
  \/ \E tok \in BOOLEAN : ConnectResume(tok, MaxLive, MaxSockets)
  \/ Disconnect
  \/ \E s \in Sockets : TransportOpen(s)
  \/ \E s \in Sockets : TransportDrop(s, MaxDrops)
  \/ ReconnectTimer
  \/ setupWebSocketHandlers
  \/ \E s \in Sockets, d \in PeerScreenEvents, decOk \in BOOLEAN, res \in SaveResults : NewMessage(s, d, decOk, res)

SpecKeys == Init /\ [][NextKeys]_vars

\* sends through the hook while joins are confirmed, rejected or time out and
\* the connection comes and goes
NextHook ==
  \/ \E urlOk \in BOOLEAN : ConnectBegin(urlOk)
  \/ \E tok \in BOOLEAN : ConnectResume(tok, MaxLive, MaxSockets)
  \/ Disconnect
  \/ \E s \in Sockets : TransportOpen(s)
  \/ \E s \in Sockets : TransportDrop(s, MaxDrops)
  \/ ReconnectTimer
  \/ CheckConnectionStatus
  \/ \E s \in Sockets, c \in Chats : JoinedChat(s, c)
  \/ \E s \in Sockets, c \in Chats : JoinError(s, c)
  \/ \E w \in 1..MaxWaits : WaitTimeout(w)
  \/ \E c \in Chats : HookSendBegin(c)
  \/ HookSendResume

\* the timeout of every join wait fires, and a send whose wait resolved resumes
HookFairness == (\A w \in 1..MaxWaits : WF_vars(WaitTimeout(w))) /\ WF_vars(HookSendResume)

SpecHook == Init /\ [][NextHook]_vars /\ HookFairness

\* the outbox around authentication
NextFlush ==
  \/ \E urlOk \in BOOLEAN : ConnectBegin(urlOk)
  \/ \E tok \in BOOLEAN : ConnectResume(tok, MaxLive, MaxLive)
  \/ Disconnect
  \/ \E s \in Sockets : TransportOpen(s)
  \/ \E s \in Sockets : TransportDrop(s, MaxDrops)
  \/ ReconnectTimer
  \/ \E s \in Sockets, success \in BOOLEAN : Authenticated(s, success)
  \/ \E m \in Msgs : SendMessage(m)
  \/ \E c \in Chats : JoinChat(c)
  \/ \E s \in Sockets, c \in Chats : JoinedChat(s, c)
  \/ \E w \in 1..MaxWaits : WaitTimeout(w)

SpecFlush == Init /\ [][NextFlush]_vars

\* manual joins over sessions that follow one another: connect, disconnect, connect
NextWaits ==
  \/ \E urlOk \in BOOLEAN : ConnectBegin(urlOk)
  \/ \E tok \in BOOLEAN : ConnectResume(tok, MaxLive, MaxSockets)
  \/ Disconnect
  \/ \E s \in Sockets : TransportOpen(s)
  \/ \E c \in Chats : JoinChat(c)
  \/ \E s \in Sockets, c \in Chats : JoinedChat(s, c)
  \/ \E s \in Sockets, c \in Chats : JoinError(s, c)
  \/ \E w \in 1..MaxWaits : WaitTimeout(w)

SpecWaits == Init /\ [][NextWaits]_vars

\* the auto-join passes under fair scheduling
NextPass ==
  \/ \E urlOk \in BOOLEAN : ConnectBegin(urlOk)
  \/ \E tok \in BOOLEAN : ConnectResume(tok, MaxLive, MaxLive)
  \/ Disconnect
  \/ \E s \in Sockets : TransportOpen(s)
  \/ \E s \in Sockets : TransportDrop(s, MaxDrops)
  \/ ReconnectTimer
  \/ \E s \in Sockets, success \in BOOLEAN : Authenticated(s, success)
  \/ \E s \in Sockets, c \in Chats : JoinedChat(s, c)
  \/ \E s \in Sockets, c \in Chats : JoinError(s, c)
  \/ \E w \in 1..MaxWaits : WaitTimeout(w)
  \/ \E p \in 1..MaxPasses : PassBegin(p)
  \/ \E p \in 1..MaxPasses : PassFetch(p)
  \/ \E p \in 1..MaxPasses : PassLoop(p)
  \/ \E p \in 1..MaxPasses : PassJoinDone(p)

\* every timer fires and every continuation of an async function that can run does run
PassFairness ==
  /\ \A w \in 1..MaxWaits : WF_vars(WaitTimeout(w))
  /\ \A p \in 1..MaxPasses : WF_vars(PassBegin(p)) /\ WF_vars(PassFetch(p)) /\ WF_vars(PassLoop(p)) /\ WF_vars(PassJoinDone(p))

SpecPass == Init /\ [][NextPass]_vars /\ PassFairness

\* joining and leaving chats while the connection comes and goes
NextLeave ==
  \/ \E urlOk \in BOOLEAN : ConnectBegin(urlOk)
  \/ \E tok \in BOOLEAN : ConnectResume(tok, MaxLive, MaxSockets)
  \/ Disconnect
  \/ \E s \in Sockets : TransportOpen(s)
  \/ \E s \in Sockets : TransportDrop(s, MaxDrops)
  \/ \E c \in Chats : JoinChat(c)
  \/ \E s \in Sockets, c \in Chats : JoinedChat(s, c)
  \/ \E w \in 1..MaxWaits : WaitTimeout(w)
  \/ \E c \in Chats : LeaveChat(c)
  \/ \E c \in Chats : HookLeaveChat(c)

SpecLeave == Init /\ [][NextLeave]_vars

\* the message list of the mounted ChatScreen: its sends and the messages it receives
NextScreen ==
  \/ \E urlOk \in BOOLEAN : ConnectBegin(urlOk)
  \/ \E tok \in BOOLEAN : ConnectResume(tok, MaxLive, MaxLive)
  \/ Disconnect
  \/ \E s \in Sockets : TransportOpen(s)
  \/ setupWebSocketHandlers
  \/ \E s \in Sockets, d \in PeerEvents, decOk \in BOOLEAN, res \in SaveResults : NewMessage(s, d, decOk, res)
  \/ \E textOk \in BOOLEAN : ScreenSendBegin(textOk)
  \/ \E res \in SaveResults : ScreenSendFinish(res)

SpecScreen == Init /\ [][NextScreen]_vars

\* processedMessages after k messages of a third user that the hook's handler
\* could not decrypt
Prefill(k) == [i \in 1..k |-> Id("msg", Third, i)]

\* a long-running connected session: the socket is open, authentication is
\* pending, and processedMessages holds nearly ProcessedCap ids
InitEvict ==
  /\ \E k \in (ProcessedCap - MaxDeliveries)..ProcessedCap :
       svc = [NewService EXCEPT !.socket = 1, !.isConnected = TRUE, !.isEnabled = TRUE, !.authToken = TRUE,
                                !.userId = Self, !.onMessageReceived = "hook", !.processedMessages = Prefill(k)]
  /\ net = [NewNet EXCEPT !.created = 1, !.tstate[1] = "open", !.authPending[1] = 1]
  /\ connectPending = FALSE
  /\ reconnectTimers = 0
  /\ passes = [p \in 1..MaxPasses |-> IdlePass]
  /\ waits = [w \in 1..MaxWaits |-> FreeWait]
  /\ leaked = {}
  /\ now = 0
  /\ out = NoOut
  /\ app = [NewApp EXCEPT !.hook.connectionStatus = "connecting"]
  /\ gh = NewGhost

\* deliveries to a session whose processedMessages is nearly full
NextEvict ==
  \/ Disconnect
  \/ \E s \in Sockets : TransportOpen(s)
  \/ \E s \in Sockets : TransportDrop(s, MaxDrops)
  \/ ReconnectTimer
  \/ setupWebSocketHandlers
  \/ \E s \in Sockets, d \in PeerEvents, decOk \in BOOLEAN, res \in SaveResults : NewMessage(s, d, decOk, res)

SpecEvict == InitEvict /\ [][NextEvict]_vars

\* ------------------------------------------------------------------ claims
\* C1 (idempotent receive): a peer's new_message event delivered two or more
\* times leaves exactly one Message row for it, and a repeated delivery changes
\* neither the messages table nor a UI list.
IdempotentReceive ==
  /\ \A d \in app.redelivered : d.senderId # Self => Cardinality(RowsFor(d)) = 1
  /\ (out.recv.again /\ ~out.recv.own) => ~out.recv.changed

\* C2 (no self-echo duplication): a new_message event whose senderId is the
\* local user adds no row and no UI entry; the sender keeps exactly the one row
\* written by the send path.
NoSelfEcho ==
  /\ \A d \in app.delivered : d.senderId = Self => Cardinality(RowsFor(d)) = 1
  /\ out.recv.own => ~out.recv.changed

\* the rows the send path wrote for the local user's n-th message
SendRows(n) == {i \in 1..Len(app.db) : app.db[i].sender_id = Self /\ app.db[i].n = n /\ app.db[i].by = "send"}

\* C3: every send that completed without error has written exactly one Message
\* row, whatever the connection state it met.
SendWritesOneRow == \A i \in 1..Len(app.sends) : app.sends[i].ok => Cardinality(SendRows(app.sends[i].n)) = 1

\* a send completed without error after the connection had dropped, before it was back
SentWhileReconnecting ==
  \E i \in 1..Len(app.sends) : app.sends[i].ok /\ app.sends[i].conn = "reconnecting" /\ gh.faults > 0 /\ Cardinality(SendRows(app.sends[i].n)) = 1

\* C4: a WebSocketService.sendMessage call emits send_message when the session is
\* connected and appends exactly one entry to the outbox when it is not; it
\* never does neither.
EmitOrQueue ==
  out.call.op = "send" =>
    IF out.call.connected THEN out.call.emitted = 1 /\ out.call.queued = 0
    ELSE out.call.emitted = 0 /\ out.call.queued = 1

\* C5 (outbox TTL): at a flush every entry older than the TTL is removed without
\* being emitted and every entry younger than the TTL is emitted.
OutboxTTL ==
  \A i \in 1..Len(out.flush.entries) :
    LET age == out.flush.at - out.flush.entries[i].timestamp
    IN /\ age > QueueTTL => i \notin out.flush.emitted
       /\ age < QueueTTL => i \in out.flush.emitted

\* C6 (reconnect resets join cache): once the current socket is connected again
\* after a transport drop, joinedChats is empty until a join confirmation
\* arrives on that connection.
RejoinCacheEmpty == svc.socket \in gh.fresh => svc.joinedChats = {}

\* C7 (backoff monotonicity): the reconnect delays computed since the last
\* successful connection are non-decreasing and never exceed the cap.
BackoffMonotone ==
  \A i \in 1..Len(gh.delays) : gh.delays[i] <= CapDelay /\ (i > 1 => gh.delays[i - 1] <= gh.delays[i])

\* C8 (backoff reset): the first reconnect delay computed after the session
\* reached ready is the base value, min(base * 2^0, cap).
BackoffReset == gh.firstDelay # 0 => gh.firstDelay = Delay(0)

\* auto-join passes in progress
Running == {p \in 1..MaxPasses : passes[p].pc # "idle"}

\* C9: no two auto-join passes are in progress at the same time, and auto-join
\* passes send no chat two join_chat requests on one connection.
OnePassAtATime ==
  /\ Cardinality(Running) <= 1
  /\ \A s \in Sockets, c \in Chats : gh.autoSent[s][c] <= 1

\* the session is ready on the current socket
Ready == svc.isEnabled /\ svc.isConnected /\ svc.socket # NoSocket /\ gh.readySock = svc.socket /\ net.tstate[svc.socket] = "open"

\* nothing is pending: no connect() call, timer, pass, join wait, join request
\* or authenticate request
Quiescent ==
  /\ ~connectPending
  /\ reconnectTimers = 0
  /\ Running = {}
  /\ \A w \in 1..MaxWaits : waits[w].st = "free"
  /\ net.srvJoin[svc.socket] = {}
  /\ net.authPending[svc.socket] = 0

\* C10: after a transition into ready, with the connection up and every join
\* request since then confirmed, every chat of the user ends up in joinedChats:
\* once nothing is pending, none is missing.
AllJoinedWhenSettled ==
  (Ready /\ Quiescent /\ ~gh.settledBad) => \A i \in 1..Len(getUserChats(svc.userId)) : getUserChats(svc.userId)[i] \in svc.joinedChats

\* disconnect() has run and connect() has not been called since: connect()
\* assigns this.userId first, disconnect() sets it to null
Disconnected == svc.userId = 0

\* socket s goes from closed or absent to connecting in this step
ConnectAttempted(s) == net'.tstate[s] = "connecting" /\ net.tstate[s] # "connecting"

\* C11: between a disconnect() call and the next connect() call no socket
\* starts connecting, whatever handler or timer runs.
NoConnectAfterDisconnect == [][(Disconnected /\ Disconnected') => \A s \in Sockets : ~ConnectAttempted(s)]_vars

CapExhausted == gh.refused /\ reconnectTimers = 0 /\ ~connectPending

\* the connection status a caller of the hook is shown once the hook has read
\* getConnectionStatus()
StatusExposed == checkConnectionStatus(app.hook, getConnectionStatus(svc)).connectionStatus

\* C13: once the retry cap is exhausted the state exposed to callers is
\* neither connected nor connecting.
UnavailableAfterCap == CapExhausted => (~getConnectionStatus(svc).connected /\ StatusExposed \notin {"connected", "connecting"})

\* C14: the step that handles authenticated{success: false} leaves the service
\* disconnected (disabled, not connected, no socket, the socket it held closed),
\* schedules no reconnect timer and starts no transport connect.
AuthRejectionEnds ==
  [][out'.auth = "rejected" =>
       /\ ~svc'.isEnabled /\ ~svc'.isConnected /\ svc'.socket = NoSocket
       /\ (svc.socket # NoSocket => net'.tstate[svc.socket] = "closed")
       /\ reconnectTimers' = reconnectTimers
       /\ \A s \in Sockets : ~ConnectAttempted(s)]_vars

\* an authentication was rejected on a connection that had been re-established
\* after a fault
RejectedAfterReconnect == out.auth = "rejected" /\ gh.faults > 0 /\ ~svc.isEnabled /\ svc.socket = NoSocket

\* C15: a new_message event of a peer that is delivered for the first time, can
\* be decrypted and meets a working store is persisted, whatever its chat. (The
\* server sends new_message only for chats the session has joined.)
EveryChatPersisted == (out.recv.first /\ ~out.recv.own /\ out.recv.fine) => out.recv.stored

\* C16: no two distinct messages that were delivered carry the same messageId,
\* and an event delivered for the first time is not discarded as a duplicate.
UniqueWireKeys ==
  /\ \A d1, d2 \in app.delivered : d1 # d2 => d1.messageId # d2.messageId
  /\ out.recv.first => ~out.recv.discarded

\* the sockets created by io() whose transport is open or connecting
LiveSockets == {s \in Sockets : net.tstate[s] \in {"open", "connecting"}}

\* C17: at most one socket created by the service is open or connecting.
AtMostOneSocket == Cardinality(LiveSockets) <= 1

\* the local user's messages that were emitted, or are queued in the outbox
Transmitted == {d \in net.sent : d.senderId = Self} \cup {svc.messageQueue[i].data : i \in {j \in 1..Len(svc.messageQueue) : svc.messageQueue[j].type = "send_message"}}

\* C18: whatever was emitted or queued for an outgoing message has its row in
\* the Local Store; a send whose write failed left nothing emitted or queued.
PersistBeforeTransmit ==
  /\ \A d \in Transmitted : SendRows(d.n) # {}
  /\ \A i \in 1..Len(app.sends) : ~app.sends[i].ok => \A d \in Transmitted : d.n # app.sends[i].n

\* C19: a send through the hook that waits for the join of its chat eventually
\* goes on to WebSocketService.sendMessage.
HookSendProceeds == (app.hook.pc = "waiting") ~> (app.hook.pc = "idle")

\* the number of auto-join passes this step started
PassesStarted == Cardinality({p \in 1..MaxPasses : passes'[p].pc # "idle"}) - Cardinality(Running)

\* C20: the step that handles authenticated{success: true} starts exactly one
\* auto-join pass.
OnePassPerReady == [][out'.auth = "accepted" => PassesStarted = 1]_vars

\* C21: a flush of the outbox emits its entries only when the session is
\* ready, that is after the server accepted the authentication of the connection.
FlushOnlyWhenReady == out.flush.emitted # {} => Ready

\* the entries of q younger than the TTL at time t, in queue order
RECURSIVE YoungOf(_, _)
YoungOf(q, t) ==
  IF q = << >> THEN << >>
  ELSE (IF Young(Head(q), t) THEN <<[type |-> Head(q).type, data |-> Head(q).data]>> ELSE << >>) \o YoungOf(Tail(q), t)

\* C22: a flush puts the entries younger than the TTL on the transport in the
\* order they were enqueued, and leaves the outbox empty.
FlushFIFO == out.flush.entries # << >> => (out.flush.wire = YoungOf(out.flush.entries, out.flush.at) /\ out.flush.left = << >> /\ svc.messageQueue = << >>)

\* joinChatAndWait(c) was called in this step: a wait for chat c was registered
\* and join_chat emitted
JoinRequested(c) == \E w \in 1..MaxWaits : waits[w].st = "free" /\ waits'[w].st = "pending" /\ waits'[w].chat = c

\* C23: no join_chat is emitted for a chat that is in joinedChats, and joinChat
\* and ensureInChat called for such a chat report it as joined.
NoJoinWhenJoined == [][/\ \A c \in Chats : JoinRequested(c) => c \notin svc.joinedChats
                       /\ \A c \in svc.joinedChats : joinChatReturn(svc, c) = "true" /\ ensureInChatReturn(svc, c) = "true"]_vars

\* the emission part of C23 alone
NoJoinEmittedWhenJoined == [][\A c \in Chats : JoinRequested(c) => c \notin svc.joinedChats]_vars

\* C24: every join wait eventually resolves (true on joined_chat, false on
\* join_chat_error or on the timeout), also when the connection drops or
\* disconnect() is called while it is pending.
WaitsResolve == \A w \in 1..MaxWaits : (waits[w].st = "pending") ~> (waits[w].st # "pending")

\* C25: the one-off listeners of joinChatAndWait that are registered on a
\* socket belong to waits that are still pending: a wait that ended by
\* confirmation, error or timeout left no listener behind.
ListenersOfPendingWaits == leaked = {} /\ \A w \in 1..MaxWaits : waits[w].lsn => waits[w].st = "pending"

\* C26: a chat enters joinedChats only by a joined_chat confirmation for that
\* chat, and when a join_chat_error or a join timeout for a chat is handled the
\* chat is not in joinedChats.
JoinedOnlyByConfirmation == [][/\ \A c \in svc'.joinedChats \ svc.joinedChats : out'.jev = [kind |-> "joined", chat |-> c]
                               /\ out'.jev.kind \in {"error", "timeout"} => out'.jev.chat \notin svc'.joinedChats]_vars

\* the passes (runs of autoJoinUserChatsWithRetry) that end in this step
PassesEnding == {p \in 1..MaxPasses : passes[p].pc # "idle" /\ passes'[p].pc = "idle"}

\* C27 (bounded attempts): a run of autoJoinUserChatsWithRetry makes at most
\* maxAutoJoinRetries attempts and sets autoJoinCompleted when it ends.
PassBounded == [][/\ \A p \in 1..MaxPasses : passes'[p].attempt < maxAutoJoinRetries
                  /\ PassesEnding # {} => svc'.autoJoinCompleted]_vars

\* C27: every run of autoJoinUserChatsWithRetry terminates, whatever its
\* attempts return and whether or not the connection drops or disconnect() is
\* called meanwhile.
PassTerminates == \A p \in 1..MaxPasses : (passes[p].pc # "idle") ~> (passes[p].pc = "idle")

\* the state a leaveChat call could touch: the service (joinedChats, the outbox,
\* the connection flags), the transport, the join waits and the hook
Membership == <<svc, net, waits, leaked, reconnectTimers, connectPending, app.hook>>

Without(ms, id) == SelectSeq(ms, LAMBDA e : e.id # id)

\* a ChatScreen.sendMessage call returns in this step
ScreenSendReturns == app.screen.draft # 0 /\ app'.screen.draft = 0

\* C29: when a step of ChatScreen.sendMessage fails after the optimistic entry
\* was inserted, the list afterwards is the list before without that entry, and
\* when the call has returned no entry of the list is pending.
RollBackExact == [][ScreenSendReturns =>
                      /\ \A i \in 1..Len(app'.screen.messages) : ~app'.screen.messages[i].pending
                      /\ out'.call.op = "screenFailed" => app'.screen.messages = Without(app.screen.messages, Id("local", Self, app.screen.draft))]_vars

\* a send failed and was rolled back while the list held a received message
RolledBackAmongOthers == out.call.op = "screenFailed" /\ Len(app.screen.messages) > 0

\* C30: a send whose encryption failed is still persisted and, when the
\* service is enabled, still transmitted or queued.
EncFailureStillSent == out.call.op = "ctxEncFailed" => (SendRows(app.nSends) # {} /\ (svc.isEnabled => \E d \in Transmitted : d.n = app.nSends))

\* C31: an inbound message whose decryption fails is still persisted and
\* delivered to the UI; it is not dropped.
DecFailureKept == (out.recv.first /\ ~out.recv.discarded /\ ~out.recv.own /\ ~out.recv.dec) => (out.recv.stored /\ out.recv.shown)

\* C32: an inbound message is added to a UI list only when its write to the
\* Local Store added its row.
ShownOnlyIfStored == out.recv.shown => out.recv.stored

\* C33: after every handleIncomingMessage call processedMessages holds at most
\* ProcessedCap ids; an insertion that takes it above the cap evicts the
\* ProcessedDrop earliest-inserted ids and keeps the others and the new id.
BoundedProcessed ==
  [][LET pm == svc.processedMessages
         pm2 == svc'.processedMessages
     IN (out'.recv.id # NoId /\ ~out'.recv.discarded) =>
          /\ Len(pm2) <= ProcessedCap
          /\ Len(pm2) > 0 /\ pm2[Len(pm2)] = out'.recv.id
          /\ IF Len(pm) + 1 > ProcessedCap
             THEN Len(pm2) = Len(pm) + 1 - ProcessedDrop /\ \A j \in 1..(Len(pm2) - 1) : pm2[j] = pm[j + ProcessedDrop]
             ELSE Len(pm2) = Len(pm) + 1 /\ \A j \in 1..Len(pm) : pm2[j] = pm[j]]_vars

\* an insertion took processedMessages above the cap and the clean-up ran
Evicted == out.recv.id # NoId /\ ~out.recv.discarded /\ Len(svc.processedMessages) = ProcessedCap + 1 - ProcessedDrop

\* C34: when the connection ends, by disconnect() or by a transport drop,
\* processedMessages is empty afterwards, as joinedChats is.
ProcessedClearedOnDisconnect == [][(svc.isConnected /\ ~svc'.isConnected) => (svc'.processedMessages = << >> /\ svc'.joinedChats = {})]_vars

\* C35: within a session reconnectAttempts goes back to zero only in a step in
\* which authentication is accepted; a transport open alone leaves it unchanged.
ResetOnlyWhenReady == [][(svc.reconnectAttempts > 0 /\ svc'.reconnectAttempts = 0 /\ svc'.socket # NoSocket) => out'.auth = "accepted"]_vars

\* C37: a reconnect timer scheduled before the last disconnect() does nothing
\* when it fires: it neither calls connect on the socket of the later session
\* nor resets that session's auto-join flag.
StaleTimerInert == [][out'.timer = "stale" => ~TimerActs(svc)]_vars

\* new_message events of the chat on screen: two peers, timestamps 1..MaxMsgs
ChatEvents == {MsgData(Id("msg", u, m), ScreenChat, u, m) : u \in {Other, Third}, m \in Msgs}

\* DatabaseService.getChatMessages(chatId): the rows of the chat, ORDER BY
\* timestamp ASC (rows of one timestamp in insertion order); the default
\* LIMIT of 50 is above the number of rows the bounds allow
getChatMessages(rows, c) ==
  LET S == {i \in 1..Len(rows) : rows[i].chat_id = c}
      rank(i) == Cardinality({j \in S : rows[j].n < rows[i].n \/ (rows[j].n = rows[i].n /\ j < i)}) + 1
  IN [k \in 1..Cardinality(S) |-> LET i == CHOOSE i \in S : rank(i) = k
                                  IN [id |-> RowId(i), sender_id |-> rows[i].sender_id, n |-> rows[i].n, pending |-> FALSE]]

\* ChatScreen.loadMessages: the list becomes the stored rows of the chat, their
\* ids join processedMessageIds
loadMessages ==
  /\ out' = NoOut
  /\ LET ms == getChatMessages(app.db, ScreenChat)
     IN /\ ms # app.screen.messages
        /\ app' = [app EXCEPT !.screen.messages = ms,
                              !.screen.processedMessageIds = @ \cup {ms[i].id : i \in 1..Len(ms)}]
  /\ UNCHANGED <<svc, net, connectPending, reconnectTimers, passes, waits, leaked, now, gh>>

NextOrder ==
  \/ \E urlOk \in BOOLEAN : ConnectBegin(urlOk)
  \/ \E tok \in BOOLEAN : ConnectResume(tok, MaxLive, MaxLive)
  \/ \E s \in Sockets : TransportOpen(s)
  \/ setupWebSocketHandlers
  \/ loadMessages
  \/ \E s \in Sockets, d \in ChatEvents, decOk \in BOOLEAN, res \in SaveResults : NewMessage(s, d, decOk, res)
  \/ \E textOk \in BOOLEAN : ScreenSendBegin(textOk)
  \/ \E res \in SaveResults : ScreenSendFinish(res)

SpecOrder == Init /\ [][NextOrder]_vars

\* C36: the displayed list of the chat is ordered by timestamp at every moment:
\* no entry stands before an entry with a lower timestamp, also right after an
\* inbound message older than a displayed one arrived
SortedByTimestamp ==
  \A i, j \in 1..Len(app.screen.messages) : i < j => app.screen.messages[i].n <= app.screen.messages[j].n

\* the outbox of the chat on screen over connects, drops and reconnects, with
\* up to MaxSockets sockets alive at a time
NextDrain ==
  \/ \E urlOk \in BOOLEAN : ConnectBegin(urlOk)
  \/ \E tok \in BOOLEAN : ConnectResume(tok, MaxSockets, MaxSockets)
  \/ Disconnect
  \/ \E s \in Sockets : TransportOpen(s)
  \/ \E s \in Sockets : TransportDrop(s, MaxDrops)
  \/ ReconnectTimer
  \/ \E m \in Msgs : SendMessage(m)
  \/ JoinChat(ScreenChat)

SpecDrain == Init /\ [][NextDrain]_vars

\* the number of entries of q that carry event e
Occurrences(q, e) == Cardinality({i \in 1..Len(q) : q[i].type = e.type /\ q[i].data = e.data})

\* the events a flush can emit
OutboxEvents == {[type |-> "send_message", data |-> MsgData(RowId(m), ScreenChat, Self, m)] : m \in Msgs}
                \cup {[type |-> "join_chat", data |-> JoinData(c)] : c \in Chats}

\* C38: an outbox entry is emitted at most once. A flush takes the whole outbox,
\* emits no event more often than the outbox held it, and an entry it emitted
\* is not in the outbox afterwards, where a later or overlapping flush could
\* find it: emitted and remaining entries together are at most what was there.
EmittedAtMostOnce ==
  [][out'.flush.entries # << >> =>
       /\ out'.flush.entries = svc.messageQueue
       /\ \A i \in 1..Len(out'.flush.wire) : out'.flush.wire[i] \in OutboxEvents
       /\ \A e \in OutboxEvents :
            Occurrences(out'.flush.wire, e) + Occurrences(svc'.messageQueue, e) <= Occurrences(svc.messageQueue, e)]_vars

\* a flush emitted entries on a connection that opened again after a drop
FlushedAfterReconnect == out.flush.wire # << >> /\ gh.fresh # {}

\* C39: an id is marked as processed only if its message was persisted: after an
\* inbound message was accepted by the service, its id is in processedMessages
\* only if the step stored a row for it, so that a redelivery is accepted when
\* the save failed, no handler was registered or the handler ignored it.
ProcessedOnlyIfStored ==
  (out.recv.id # NoId /\ ~out.recv.discarded /\ InSeq(out.recv.id, svc.processedMessages)) => out.recv.stored

\* C40: saveMessage is all-or-nothing: when the call of ChatScreen.sendMessage
\* throws, the messages table is as it was before; when it returns an id, one
\* row was added for the message.
SaveAllOrNothing ==
  [][/\ out'.call.op = "screenFailed" => app'.db = app.db
     /\ out'.call.op = "screenSent" => (Len(app'.db) = Len(app.db) + 1 /\ app'.db[Len(app'.db)].n = app.screen.draft)]_vars

============================================================================
